---- MODULE Spec2Model ----
(***************************************************************************)
(* Model of WallColumnDesign: the polygon clipping kernel                  *)
(* (geometry/geometry_utils.py), the strength reduction function and the   *)
(* interaction diagram engine (analysis/interaction_diagram.py), with the  *)
(* section generator (geometry/wall_section.py) and the material holders   *)
(* (materials/concrete.py, materials/steel.py) that feed them.             *)
(*                                                                         *)
(* Numbers.  A number is a pair <<n, d>> in lowest terms with d > 0;        *)
(* <<1, 0>> and <<-1, 0>> are float("inf") and -np.inf; None is the empty  *)
(* tuple.  The program computes in binary floating point, rounding every   *)
(* operation to the nearest float, ties to even.  The geometry kernel does *)
(* the same here: fl rounds the result of each of its operations to        *)
(* float_bits significant bits, in the order in which the code performs    *)
(* them.  float_bits = 0 stands for exact arithmetic.  Python floats carry *)
(* 53 bits; SpecClip runs the kernel both exactly and with Mantissa bits,  *)
(* on vertices that are themselves floats of that width (no overflow, no   *)
(* subnormals at these magnitudes).  The engine and compute_phi_E are      *)
(* evaluated exactly.                                                      *)
(*                                                                         *)
(* Units.  The engine mixes lengths of the order of the section (hundreds  *)
(* of mm) with the length constants 0.0001 (sweep floor), 0.01 (To         *)
(* tolerance) and 1e-3 (bar tolerance).  The model measures every length   *)
(* in units of 0.0001 mm and every area in the square of that unit, so     *)
(* these three constants read 1, 100 and 10; all other constants of the    *)
(* code are dimensionless factors and are kept as written.  The code is a  *)
(* function of numbers only, so a run of the model on lengths l and bar    *)
(* areas s is the run of the code on lengths l*1e-4 and bar areas s*1e-8:  *)
(* strains, stresses and phi are the same, forces are scaled by 1e8 and    *)
(* moments by 1e12, and every comparison the code makes has the same       *)
(* outcome.                                                                *)
(***************************************************************************)
EXTENDS Integers, Sequences, FiniteSets, TLC

VARIABLES
    pc,               \* position of compute_interaction_diagram
    inp,              \* its arguments (section, concrete, steel, bar areas, c_max, c_step)
    c_values,         \* the depths of the sweep (np.linspace)
    i,                \* index of the next depth to evaluate
    results,          \* the list of records
    swept,            \* the records as appended by the sweep (before lines 178-190)
    To, Po, min_abs_moment, Mb, Pb,
    RestPo_0_35, RestPo_0_10,
    phi_pc, epsilon_s, phi_ret,          \* one call of compute_phi_E
    clip_pc, polygon, y_cut, clip_ret, full_ret,  \* one call of clip_polygon_above_c
    float_bits,       \* significant bits of a float (0: exact arithmetic)
    beta_pc, self_fc, beta_ret           \* one call of Concrete.calculate_β

engine_vars == <<pc, inp, c_values, i, results, swept, To, Po, min_abs_moment,
                 Mb, Pb, RestPo_0_35, RestPo_0_10>>
phi_vars == <<phi_pc, epsilon_s, phi_ret>>
clip_vars == <<clip_pc, polygon, y_cut, clip_ret, full_ret, float_bits>>
beta_vars == <<beta_pc, self_fc, beta_ret>>
vars == <<engine_vars, phi_vars, clip_vars, beta_vars>>

-----------------------------------------------------------------------------
(* Rational arithmetic standing for Python floats *)

None == <<>>
Inf == <<1, 0>>
NegInf == <<-1, 0>>

IAbs(n) == IF n < 0 THEN -n ELSE n

\* greatest common divisor of a >= 0 and b >= 0, four steps of Euclid at a time
RECURSIVE GCD(_, _)
GCD(a, b) ==
    IF b = 0 THEN a
    ELSE LET r1 == a % b
         IN  IF r1 = 0 THEN b
             ELSE LET r2 == b % r1
                  IN  IF r2 = 0 THEN r1
                      ELSE LET r3 == r1 % r2
                           IN  IF r3 = 0 THEN r2 ELSE GCD(r3, r2 % r3)

LCM(a, b) == (a \div GCD(a, b)) * b

\* n/d with the common factor g taken out and the sign carried by n
Lowest(n, d, g) ==
    IF d < 0 THEN <<(-n) \div g, (-d) \div g>> ELSE <<n \div g, d \div g>>

\* n/d in lowest terms, for d # 0
R(n, d) == Lowest(n, d, GCD(IAbs(n), IAbs(d)))

Zero == <<0, 1>>
N(k) == <<k, 1>>

RNeg(a) == <<-a[1], a[2]>>

\* a + b over the common denominator l
RAddOver(a, b, l) == R(a[1] * (l \div a[2]) + b[1] * (l \div b[2]), l)

\* a + b (inf + x is inf)
RAdd(a, b) ==
    IF a[2] = 0 THEN a
    ELSE IF b[2] = 0 THEN b
    ELSE RAddOver(a, b, LCM(a[2], b[2]))

RSub(a, b) == RAdd(a, RNeg(b))

\* a * b with g1 = gcd(|a[1]|, b[2]) and g2 = gcd(|b[1]|, a[2]) cancelled
RMulBy(a, b, g1, g2) ==
    <<(a[1] \div g1) * (b[1] \div g2), (a[2] \div g2) * (b[2] \div g1)>>

RMul(a, b) ==
    IF a[1] = 0 \/ b[1] = 0 THEN Zero
    ELSE RMulBy(a, b, GCD(IAbs(a[1]), b[2]), GCD(IAbs(b[1]), a[2]))

\* a / b for b # 0 (Python raises ZeroDivisionError otherwise)
RDiv(a, b) == RMul(a, IF b[1] < 0 THEN <<-b[2], -b[1]>> ELSE <<b[2], b[1]>>)

\* a < b for finite a # b, over the common denominator l
RLtOver(a, b, l) == a[1] * (l \div a[2]) < b[1] * (l \div b[2])

RLt(a, b) ==
    IF a = b THEN FALSE
    ELSE IF b = Inf \/ a = NegInf THEN TRUE
    ELSE IF a = Inf \/ b = NegInf THEN FALSE
    ELSE RLtOver(a, b, LCM(a[2], b[2]))

RLe(a, b) == a = b \/ RLt(a, b)
RGt(a, b) == RLt(b, a)
RGe(a, b) == RLe(b, a)
RAbs(a) == <<IAbs(a[1]), a[2]>>
RMin(a, b) == IF RLt(b, a) THEN b ELSE a
RMax(a, b) == IF RGt(b, a) THEN b ELSE a

\* the floor of the rational q
RFloor(q) == q[1] \div q[2]

\* int(a // b) for a >= 0, b > 0
RFloorDiv(a, b) == RFloor(RDiv(a, b))

\* f[lo] + ... + f[hi]: the value of a loop `acc += f[k]` (addition is exact,
\* so the order in which the terms are added does not matter)
RECURSIVE RSumRange(_, _, _)
RSumRange(f, lo, hi) ==
    IF lo > hi THEN Zero
    ELSE IF lo = hi THEN f[lo]
    ELSE RAdd(RSumRange(f, lo, (lo + hi) \div 2),
              RSumRange(f, ((lo + hi) \div 2) + 1, hi))

RSum(f) == RSumRange(f, 1, Len(f))

\* <<m * 2^e, 2^e>> for the exponent e with 2^(p-1) <= m * 2^e < 2^p, m > 0
RECURSIVE Normalised(_, _, _)
Normalised(m, k, p) ==
    IF RFloor(m) >= 2^p THEN Normalised(RMul(m, R(1, 2)), RMul(k, R(1, 2)), p)
    ELSE IF RFloor(m) < 2^(p - 1) THEN Normalised(RMul(m, N(2)), RMul(k, N(2)), p)
    ELSE <<m, k>>

\* the integer nearest to m > 0, ties to the even one
NearestEven(m) ==
    IF \/ 2 * (m[1] % m[2]) > m[2]
       \/ (2 * (m[1] % m[2]) = m[2] /\ (m[1] \div m[2]) % 2 = 1)
    THEN (m[1] \div m[2]) + 1
    ELSE m[1] \div m[2]

\* the float nearest to a > 0, for mk = Normalised(a, 1, p)
RoundTo(mk) == RDiv(N(NearestEven(mk[1])), mk[2])

\* r with the sign of x
Signed(x, r) == IF x[1] < 0 THEN RNeg(r) ELSE r

\* the float of p significant bits nearest to the finite x, ties to even
Round(x, p) ==
    IF x[1] = 0 THEN x ELSE Signed(x, RoundTo(Normalised(RAbs(x), N(1), p)))

\* the result of one floating point operation whose exact value is x
fl(x) == IF float_bits = 0 THEN x ELSE Round(x, float_bits)

-----------------------------------------------------------------------------
(* analysis/interaction_diagram.py: compute_phi_E *)

eps_yield == R(2, 1000)
eps_max == R(5, 1000)
phi_min == R(65, 100)
phi_max == R(90, 100)

\* lines 35-44, for the value eps of line 33
phi_of(eps) ==
    IF RGe(eps, eps_max) THEN phi_max
    ELSE IF RLe(eps, eps_yield) THEN phi_min
    ELSE RAdd(phi_min, RDiv(RMul(RSub(eps, eps_yield), RSub(phi_max, phi_min)),
                            RSub(eps_max, eps_yield)))

\* compute_phi_E without the sign flip of line 33
compute_phi_E_noflip(e) == phi_of(e)

compute_phi_E(e) == phi_of(RMul(e, N(-1)))

-----------------------------------------------------------------------------
(* geometry/geometry_utils.py *)

\* p1[0] + (p2[0] - p1[0]) * dy / h of lines 42 and 46
x_int(p1, p2, dy, h) ==
    fl(RAdd(p1[1], fl(RDiv(fl(RMul(fl(RSub(p2[1], p1[1])), fl(dy))), fl(h)))))

\* ClipEdge keeping the side below the cut
ClipEdge_below(p1, p2, c) ==
    IF RLe(p1[2], c)
    THEN IF RLe(p2[2], c)
         THEN <<p2>>
         ELSE <<<<x_int(p1, p2, RSub(p1[2], c), RSub(p1[2], p2[2])), c>>>>
    ELSE IF RLe(p2[2], c)
         THEN <<<<x_int(p1, p2, RSub(c, p1[2]), RSub(p2[2], p1[2])), c>>, p2>>
         ELSE <<>>

\* the points one edge p1 -> p2 contributes to the clipped boundary (lines 34-48)
ClipEdge(p1, p2, c) ==
    IF RGe(p1[2], c)
    THEN IF RGe(p2[2], c)
         THEN <<p2>>
         ELSE <<<<x_int(p1, p2, RSub(p1[2], c), RSub(p1[2], p2[2])), c>>>>
    ELSE IF RGe(p2[2], c)
         THEN <<<<x_int(p1, p2, RSub(c, p1[2]), RSub(p2[2], p1[2])), c>>, p2>>
         ELSE <<>>

\* the concatenation of the sequences pieces[lo..hi]
RECURSIVE Flatten(_, _, _)
Flatten(pieces, lo, hi) ==
    IF lo > hi THEN <<>>
    ELSE IF lo = hi THEN pieces[lo]
    ELSE Flatten(pieces, lo, (lo + hi) \div 2)
         \o Flatten(pieces, ((lo + hi) \div 2) + 1, hi)

\* the list `clipped` after the loop of lines 33-48
Clipped(poly, c) ==
    Flatten([k \in 1..Len(poly) |-> ClipEdge(poly[k], poly[(k % Len(poly)) + 1], c)],
            1, Len(poly))

\* cross = x[i] * y[j] - x[j] * y[i] of line 85, j = (i + 1) % n
Cross(x, y, k) ==
    fl(RSub(fl(RMul(x[k], y[(k % Len(x)) + 1])), fl(RMul(x[(k % Len(x)) + 1], y[k]))))

\* lines 86-88: one pass of the loop body on the sums s = <<A, Cx, Cy>>
GaussGreenStep(s, x, y, k, cross) ==
    <<fl(RAdd(s[1], cross)),
      fl(RAdd(s[2], fl(RMul(fl(RAdd(x[k], x[(k % Len(x)) + 1])), cross)))),
      fl(RAdd(s[3], fl(RMul(fl(RAdd(y[k], y[(k % Len(x)) + 1])), cross))))>>

\* the sums A, Cx, Cy after k passes of the loop of lines 83-88
RECURSIVE GaussGreenLoop(_, _, _)
GaussGreenLoop(x, y, k) ==
    IF k = 0 THEN <<Zero, Zero, Zero>>
    ELSE GaussGreenStep(GaussGreenLoop(x, y, k - 1), x, y, k, Cross(x, y, k))

\* the sums A, Cx, Cy after the loop of lines 83-88
GaussGreen(x, y) == GaussGreenLoop(x, y, Len(x))

\* lines 94-97 for the signed area A # 0 of line 90
centroid_at(A, Cx, Cy) ==
    <<RAbs(A), fl(RDiv(Cx, fl(RMul(N(6), A)))), fl(RDiv(Cy, fl(RMul(N(6), A))))>>

\* lines 90-97 dividing the centroid sums by 2A instead of 6A
area_and_centroid_2A(s) ==
    IF fl(RMul(s[1], R(1, 2))) = Zero THEN <<Zero, Zero, Zero>>
    ELSE <<RAbs(fl(RMul(s[1], R(1, 2)))),
           fl(RDiv(s[2], fl(RMul(N(2), fl(RMul(s[1], R(1, 2))))))),
           fl(RDiv(s[3], fl(RMul(N(2), fl(RMul(s[1], R(1, 2)))))))>>

\* lines 90-97, for the sums s of the loop
area_and_centroid(s) ==
    IF fl(RMul(s[1], R(1, 2))) = Zero THEN <<Zero, Zero, Zero>>
    ELSE centroid_at(fl(RMul(s[1], R(1, 2))), s[2], s[3])

polygon_area_centroid(x, y) == area_and_centroid(GaussGreen(x, y))

Xs(pts) == [k \in 1..Len(pts) |-> pts[k][1]]
Ys(pts) == [k \in 1..Len(pts) |-> pts[k][2]]

\* lines 50-55, for the list `clipped`
area_of_clipped(clipped) ==
    IF Len(clipped) < 3 THEN <<Zero, Zero, Zero>>
    ELSE polygon_area_centroid(Xs(clipped), Ys(clipped))

clip_polygon_above_c(poly, c) == area_of_clipped(Clipped(poly, c))

compute_area_and_centroid(poly) == polygon_area_centroid(Xs(poly), Ys(poly))

-----------------------------------------------------------------------------
(* materials/concrete.py, geometry/wall_section.py *)

calculate_beta(fc) ==
    LET fc_lower_limit == N(170)
        fc_upper_limit == N(280)
        beta_initial == R(85, 100)
        beta_reduction == R(5, 100)
        fc_step == N(70)
        beta_min == R(65, 100)
    IN  IF RLe(fc_lower_limit, fc) /\ RLe(fc, fc_upper_limit)
        THEN beta_initial
        ELSE RMax(RSub(beta_initial,
                       RMul(RDiv(RSub(fc, fc_upper_limit), fc_step), beta_reduction)),
                  beta_min)

RMax3(a, b, c) == RMax(RMax(a, b), c)

\* the x offset that centres a part of width W in a section of width T_max
offset_of(T_max, W) == RDiv(RSub(T_max, W), N(2))

\* the three outlines (lines 105-126), for the offsets of lines 100-102 and
\* L_web of line 71
outlines(s, offset_web, offset_head1, offset_head2, L_web) ==
    [polygon_head_2 |->
         <<<<offset_head2, Zero>>,
           <<RAdd(offset_head2, s.W2), Zero>>,
           <<RAdd(offset_head2, s.W2), s.N2>>,
           <<offset_head2, s.N2>>>>,
     polygon_head_1 |->
         <<<<offset_head1, RSub(s.L1, s.N1)>>,
           <<RAdd(offset_head1, s.W1), RSub(s.L1, s.N1)>>,
           <<RAdd(offset_head1, s.W1), s.L1>>,
           <<offset_head1, s.L1>>>>,
     polygon_web |->
         <<<<offset_web, s.N2>>,
           <<RAdd(offset_web, s.thickness), s.N2>>,
           <<RAdd(offset_web, s.thickness), RAdd(s.N2, L_web)>>,
           <<offset_web, RAdd(s.N2, L_web)>>>>]

\* generate_geometry for the constructor arguments s and T_max of line 99
generate_geometry(s, T_max) ==
    outlines(s, offset_of(T_max, s.thickness), offset_of(T_max, s.W1),
             offset_of(T_max, s.W2), RSub(RSub(s.L1, s.N1), s.N2))

\* start + j * (end - start) / (n - 1), the terms of lines 184 and 189
along(start, end, n, j) == RAdd(start, RDiv(RMul(N(j), RSub(end, start)), N(n - 1)))

\* _perimeter_coordinates, for nx >= 2 and ny >= 2
perimeter_coordinates(x_start, x_end, y_start, y_end, nx, ny) ==
    [k \in 1..nx |-> <<along(x_start, x_end, nx, k - 1), y_start>>]
    \o [k \in 1..nx |-> <<along(x_start, x_end, nx, k - 1), y_end>>]
    \o [k \in 1..(ny - 2) |-> <<x_start, along(y_start, y_end, ny, k)>>]
    \o [k \in 1..(ny - 2) |-> <<x_end, along(y_start, y_end, ny, k)>>]

\* the three bar lists (lines 139-161), for the offsets of lines 135-137 and
\* L_web of line 71
bars(s, offset_web, offset_head1, offset_head2, L_web) ==
    [rebars_main |->
         perimeter_coordinates(
             RAdd(offset_web, s.cover),
             RSub(RAdd(offset_web, s.thickness), s.cover),
             RAdd(RAdd(s.N2, s.cover), s.cover),
             RSub(RSub(RAdd(s.N2, L_web), s.cover), s.cover),
             s.inc_main[1], s.inc_main[2]),
     rebars_N1 |->
         perimeter_coordinates(
             RAdd(offset_head1, s.cover),
             RSub(RAdd(offset_head1, s.W1), s.cover),
             RAdd(RSub(s.L1, s.N1), s.cover),
             RSub(s.L1, s.cover),
             s.inc_N1[1], s.inc_N1[2]),
     rebars_N2 |->
         perimeter_coordinates(
             RAdd(offset_head2, s.cover),
             RSub(RAdd(offset_head2, s.W2), s.cover),
             s.cover,
             RSub(s.N2, s.cover),
             s.inc_N2[1], s.inc_N2[2])]

\* generate_rebars for the constructor arguments s and T_max of line 134
generate_rebars(s, T_max) ==
    bars(s, offset_of(T_max, s.thickness), offset_of(T_max, s.W1),
         offset_of(T_max, s.W2), RSub(RSub(s.L1, s.N1), s.N2))

\* WallSection(...) followed by generate_geometry() and, when s.with_rebars,
\* generate_rebars(); the rebar lists are empty otherwise (lines 80-82)
WallSection(s) ==
    [L1 |-> s.L1]
    @@ generate_geometry(s, RMax3(s.W1, s.W2, s.thickness))
    @@ (IF s.with_rebars THEN generate_rebars(s, RMax3(s.W1, s.W2, s.thickness))
        ELSE [rebars_main |-> <<>>, rebars_N1 |-> <<>>, rebars_N2 |-> <<>>])

-----------------------------------------------------------------------------
(* analysis/interaction_diagram.py: compute_interaction_diagram *)

SweepFloor == 1     \* 0.0001, first argument of np.linspace
ToTol == 100        \* 0.01, the bound on c under which To is saved
BarTol == 10        \* 1e-3, the tolerance that picks the extreme tension bar

\* np.linspace(start, stop, num) for num >= 1
linspace(start, stop, num) ==
    IF num = 1 THEN <<start>>
    ELSE [k \in 1..num |->
             RAdd(start, RMul(N(k - 1), RDiv(RSub(stop, start), N(num - 1))))]

\* the list with As appended to every point
with_area(pts, As) == [k \in 1..Len(pts) |-> <<pts[k][1], pts[k][2], As>>]

\* lines 93-97
Rebars(section, As_main, As_head1, As_head2) ==
    with_area(section.rebars_main, As_main)
    \o with_area(section.rebars_N1, As_head1)
    \o with_area(section.rebars_N2, As_head2)

\* lines 112-119: <<Ac, cx_total, cy_total>> after the loop, for the clipped
\* parts r of the polygons
ConcreteSums(r) ==
    <<RSum([k \in 1..Len(r) |-> r[k][1]]),
      RSum([k \in 1..Len(r) |-> RMul(r[k][1], r[k][2])]),
      RSum([k \in 1..Len(r) |-> RMul(r[k][1], r[k][3])])>>

\* line 113 for every polygon of the list
ClipAll(polys, y_min) ==
    [k \in 1..Len(polys) |-> clip_polygon_above_c(polys[k], y_min)]

\* lines 108-119: the compressed concrete at depth c
ConcreteAt(a, c) ==
    ConcreteSums(ClipAll(<<a.section.polygon_head_1, a.section.polygon_web,
                           a.section.polygon_head_2>>,
                         RSub(a.section.L1, RMul(a.beta, c))))

\* line 139
BarStrain(c, L1, y) ==
    IF RGt(c, Zero) THEN RMul(RDiv(R(3, 1000), c), RSub(c, RSub(L1, y))) ELSE Zero

\* lines 140-141
BarForce(Es, fy, eps, As) ==
    RDiv(RMul(RMax(RMin(RMul(Es, eps), fy), RNeg(fy)), As), N(1000))

\* line 141 for bar k
Fs_of(rebars, c, L1, Es, fy, k) ==
    BarForce(Es, fy, BarStrain(c, L1, rebars[k][2]), rebars[k][3])

\* lines 131-144: <<Ps, Ms>> after the loop over the bars
SteelSums(rebars, c, L1, Es, fy) ==
    <<RSum([k \in 1..Len(rebars) |-> Fs_of(rebars, c, L1, Es, fy, k)]),
      RSum([k \in 1..Len(rebars) |->
               RMul(Fs_of(rebars, c, L1, Es, fy, k),
                    RDiv(RSub(rebars[k][2], RDiv(L1, N(2))), N(100)))])>>

\* line 135
y_min_of(rebars) ==
    CHOOSE y \in {rebars[k][2] : k \in 1..Len(rebars)} :
        \A k \in 1..Len(rebars) : RLe(y, rebars[k][2])

\* the indices of the bars within BarTol of y_min (line 136, line 145)
low_bars(rebars, y_min) ==
    {k \in 1..Len(rebars) : RLt(RAbs(RSub(rebars[k][2], y_min)), N(BarTol))}

\* line 136, over the bars `low`
x_max_of(rebars, low) ==
    CHOOSE x \in {rebars[k][1] : k \in low} : \A k \in low : RLe(rebars[k][1], x)

\* the last bar of `low` that passes the test of line 145
extreme_bar(rebars, low, x_max) ==
    CHOOSE k \in low :
        /\ RLt(RAbs(RSub(rebars[k][1], x_max)), N(BarTol))
        /\ \A h \in low : RLt(RAbs(RSub(rebars[h][1], x_max)), N(BarTol)) => h <= k

\* eps_s_max after the loop (lines 145-146), for the bars `low` of the lowest row
extreme_strain_in(rebars, c, L1, low) ==
    BarStrain(c, L1, rebars[extreme_bar(rebars, low, x_max_of(rebars, low))][2])

\* lines 135-136 and 145-146: the strain of the last bar of the list that is
\* within BarTol of the lowest y and of the largest x among those; rebars # <<>>
ExtremeStrain(rebars, c, L1) ==
    extreme_strain_in(rebars, c, L1, low_bars(rebars, y_min_of(rebars)))

\* lines 124-128 with the arm of line 127 measured from the top, y = L1
ConcreteForce_from_top(a, sums) ==
    <<RDiv(RMul(RMul(R(85, 100), a.fc), sums[1]), N(1000)),
      RMul(RDiv(RMul(RMul(R(85, 100), a.fc), sums[1]), N(1000)),
           RDiv(RSub(RDiv(sums[3], sums[1]), a.section.L1), N(100)))>>

\* lines 124-128: <<Fc, Mc>> for the concrete sums
ConcreteForce(a, sums) ==
    <<RDiv(RMul(RMul(R(85, 100), a.fc), sums[1]), N(1000)),
      RMul(RDiv(RMul(RMul(R(85, 100), a.fc), sums[1]), N(1000)),
           RDiv(RSub(RDiv(sums[3], sums[1]), RDiv(a.section.L1, N(2))), N(100)))>>

\* lines 148-153 and the record of lines 166-175
Record(a, c, Ac, Fc, Mc, Ps, Ms, Pn, Mn, phi) ==
    [rec |-> [c |-> c, Pn |-> Pn, Mn |-> Mn, Ac |-> Ac, Fc |-> Fc, Ps |-> Ps,
              phi_Pn |-> RMul(phi, Pn), phi_Mn |-> RMul(phi, Mn)],
     RestPo_0_35 |-> RDiv(RMul(RMul(R(35, 100), a.fc), Ac), N(1000)),
     RestPo_0_10 |-> RDiv(RMul(RMul(R(10, 100), a.fc), Ac), N(1000))]

\* lines 148-149 joining concrete <<Fc, Mc>> and steel <<Ps, Ms>>
Combine(a, c, Ac, concrete, steel, phi) ==
    Record(a, c, Ac, concrete[1], concrete[2], steel[1], steel[2],
           RAdd(concrete[1], steel[1]), RAdd(concrete[2], steel[2]), phi)

\* lines 124-153 for the concrete sums and the bar list
EvaluateWith(a, c, sums, rebars) ==
    Combine(a, c, sums[1], ConcreteForce(a, sums),
            SteelSums(rebars, c, a.section.L1, a.Es, a.fy),
            compute_phi_E(ExtremeStrain(rebars, c, a.section.L1)))

\* lines 108-153 for a depth with Ac # 0 and at least one bar
Evaluate(a, c) ==
    EvaluateWith(a, c, ConcreteAt(a, c),
                 Rebars(a.section, a.As_main, a.As_head1, a.As_head2))

\* lines 157-158
save_To(to, c, Pn) == IF RLe(c, N(ToTol)) THEN Pn ELSE to

\* lines 159-161 without the test Pn > 0
save_Po_any_sign(mp, Pn, Mn) ==
    IF RLt(RAbs(Mn), mp[1]) THEN <<RAbs(Mn), Pn>> ELSE mp

\* lines 159-161, on the pair <<min_abs_moment, Po>>
save_Po(mp, Pn, Mn) ==
    IF RGt(Pn, Zero) /\ RLt(RAbs(Mn), mp[1]) THEN <<RAbs(Mn), Pn>> ELSE mp

\* lines 162-164 with Pb assigned outside the test
save_Mb_Pb_unpaired(mb, Pn, Mn) ==
    IF RGt(Mn, mb[1]) THEN <<Mn, Pn>> ELSE <<mb[1], Pn>>

\* lines 162-164, on the pair <<Mb, Pb>>
save_Mb_Pb(mb, Pn, Mn) ==
    IF RGt(Mn, mb[1]) THEN <<Mn, Pn>> ELSE mb

\* line 187 without the factor 0.65
Rec_C2_of_080(po) == RMul(R(80, 100), po)

\* line 187
Rec_C2_of(po) == RMul(RMul(R(80, 100), R(65, 100)), po)

\* lines 188-190 writing Rec_C2 into Pn as well
apply_cap_with_Pn(rs, Rec_C2) ==
    [k \in 1..Len(rs) |->
        IF RGt(rs[k].phi_Pn, Rec_C2)
        THEN [rs[k] EXCEPT !.phi_Pn = Rec_C2, !.Pn = Rec_C2]
        ELSE rs[k]]

\* lines 188-190
apply_cap(rs, Rec_C2) ==
    [k \in 1..Len(rs) |->
        IF RGt(rs[k].phi_Pn, Rec_C2) THEN [rs[k] EXCEPT !.phi_Pn = Rec_C2] ELSE rs[k]]

\* lines 179-184 writing the keys on every record
attach_all(rs, to, po, mb, pb, r35, r10) ==
    [k \in 1..Len(rs) |-> rs[k] @@ [To |-> to, Po |-> po, Mb |-> mb, Pb |-> pb,
                                   RestPo_0_35 |-> r35, RestPo_0_10 |-> r10]]

\* lines 179-184
attach(rs, to, po, mb, pb, r35, r10) ==
    [rs EXCEPT ![1] = @ @@ [To |-> to, Po |-> po, Mb |-> mb, Pb |-> pb,
                            RestPo_0_35 |-> r35, RestPo_0_10 |-> r10]]

-----------------------------------------------------------------------------
(* Bounds of the checked instances *)

MaxStrain == 60     \* compute_phi_E is called with k/10000 for |k| <= MaxStrain
MaxW == 3           \* widths of the clipped test polygons
MaxH == 4           \* heights of the clipped test polygons
MaxSamples == 3     \* the sweeps of step 100 have 2..MaxSamples+1 depths
Mantissa == 12      \* significant bits of the floats of SpecClip
MaxFc == 120        \* Concrete is built with fc = 5, 10, ..., 5 * MaxFc

-----------------------------------------------------------------------------
(* The engine at rest, for the specifications of the pure functions *)

EngineIdle ==
    /\ pc = "idle"
    /\ inp = None
    /\ c_values = <<>>
    /\ i = 0
    /\ results = <<>>
    /\ swept = <<>>
    /\ To = None
    /\ Po = None
    /\ min_abs_moment = Inf
    /\ Mb = NegInf
    /\ Pb = None
    /\ RestPo_0_35 = None
    /\ RestPo_0_10 = None

PhiIdle == phi_pc = "idle" /\ epsilon_s = Zero /\ phi_ret = None

ClipIdle ==
    /\ clip_pc = "idle"
    /\ polygon = <<>>
    /\ y_cut = Zero
    /\ clip_ret = None
    /\ full_ret = None
    /\ float_bits = 0

BetaIdle == beta_pc = "idle" /\ self_fc = Zero /\ beta_ret = None

-----------------------------------------------------------------------------
(* One call of compute_interaction_diagram *)

\* constructor arguments of a section, lengths in units of 0.0001 mm
Sec(L1, thickness, cover, N1, W1, N2, W2, ny, with_rebars) ==
    [L1 |-> N(L1), thickness |-> N(thickness), cover |-> N(cover),
     inc_main |-> <<2, ny>>, N1 |-> N(N1), W1 |-> N(W1), inc_N1 |-> <<2, 2>>,
     N2 |-> N(N2), W2 |-> N(W2), inc_N2 |-> <<2, 2>>, with_rebars |-> with_rebars]

SectionArgs ==
    {Sec(20, 2, 1, 4, 2, 4, 2, 2, TRUE),       \* rectangle, heads as wide as the web
     Sec(20, 2, 1, 4, 2, 4, 2, 3, TRUE),       \* the same with a mid-height bar row
     Sec(20, 1, 2, 5, 3, 5, 3, 2, TRUE),       \* two equal heads wider than the web
     Sec(20, 2, 1, 4, 0, 4, 2, 2, TRUE),       \* top head of zero width
     Sec(20, 0, 1, 0, 0, 0, 0, 2, TRUE),       \* no concrete at all
     Sec(20, 2, 1, 4, 2, 4, 2, 2, FALSE),      \* generate_rebars never called
     Sec(20, 0, 1, 0, 0, 0, 0, 2, FALSE)}

\* (c_max, c_step), lengths in units of 0.0001 mm
Sweeps ==
    {<<N(11), N(5)>>, <<N(10), N(5)>>, <<N(9), N(4)>>, <<N(31), N(15)>>,
     <<N(61), N(30)>>, <<N(5), N(10)>>, <<R(3, 4), R(1, 2)>>, <<N(1), R(1, 2)>>,
     <<R(25, 2), N(10)>>}    \* ends at L1 / (2 * beta) for L1 = 20, beta = 0.8
    \cup {<<N(100 * k + 1), N(100)>> : k \in 1..MaxSamples}

\* (As_main, As_head1, As_head2); bars of area 0 leave the concrete alone
BarAreas ==
    {<<N(1), N(1), N(1)>>, <<R(1, 10), R(1, 10), R(1, 10)>>, <<Zero, Zero, Zero>>}

Inputs ==
    {[section |-> WallSection(s), fc |-> N(350), beta |-> calculate_beta(N(350)),
      Es |-> N(2000000), fy |-> N(4200),
      As_main |-> As[1], As_head1 |-> As[2], As_head2 |-> As[3],
      c_max |-> sw[1], c_step |-> sw[2]] :
        s \in SectionArgs, As \in BarAreas, sw \in Sweeps}

Init ==
    /\ PhiIdle
    /\ ClipIdle
    /\ BetaIdle
    /\ pc = "call"
    /\ inp \in Inputs
    /\ c_values = <<>>
    /\ i = 0
    /\ results = <<>>
    /\ swept = <<>>
    /\ To = None
    /\ Po = None
    /\ min_abs_moment = Inf
    /\ Mb = NegInf
    /\ Pb = None
    /\ RestPo_0_35 = None
    /\ RestPo_0_10 = None

\* lines 86-105
Enter ==
    /\ pc = "call"
    /\ c_values' = linspace(N(SweepFloor), inp.c_max,
                            RFloorDiv(inp.c_max, inp.c_step) + 1)
    /\ i' = 1
    /\ pc' = "sweep"
    /\ UNCHANGED <<inp, results, swept, To, Po, min_abs_moment, Mb, Pb,
                   RestPo_0_35, RestPo_0_10, phi_vars, clip_vars, beta_vars>>

AtDepth == pc = "sweep" /\ i <= Len(c_values)

\* lines 121-122
SkipDepth ==
    /\ AtDepth
    /\ ConcreteAt(inp, c_values[i])[1] = Zero
    /\ i' = i + 1
    /\ UNCHANGED <<pc, inp, c_values, results, swept, To, Po, min_abs_moment, Mb, Pb,
                   RestPo_0_35, RestPo_0_10, phi_vars, clip_vars, beta_vars>>

\* line 135 evaluated before the test of lines 121-122
RaiseValueError_before_skip ==
    /\ AtDepth
    /\ Rebars(inp.section, inp.As_main, inp.As_head1, inp.As_head2) = <<>>
    /\ pc' = "raised"
    /\ UNCHANGED <<inp, c_values, i, results, swept, To, Po, min_abs_moment, Mb, Pb,
                   RestPo_0_35, RestPo_0_10, phi_vars, clip_vars, beta_vars>>

\* line 135: min() of an empty sequence raises ValueError
RaiseValueError ==
    /\ AtDepth
    /\ ConcreteAt(inp, c_values[i])[1] # Zero
    /\ Rebars(inp.section, inp.As_main, inp.As_head1, inp.As_head2) = <<>>
    /\ pc' = "raised"
    /\ UNCHANGED <<inp, c_values, i, results, swept, To, Po, min_abs_moment, Mb, Pb,
                   RestPo_0_35, RestPo_0_10, phi_vars, clip_vars, beta_vars>>

\* lines 157-175, for the values e of lines 124-153
Save(e, mp, mb) ==
    /\ To' = save_To(To, e.rec.c, e.rec.Pn)
    /\ min_abs_moment' = mp[1]
    /\ Po' = mp[2]
    /\ Mb' = mb[1]
    /\ Pb' = mb[2]
    /\ RestPo_0_35' = e.RestPo_0_35
    /\ RestPo_0_10' = e.RestPo_0_10
    /\ results' = Append(results, e.rec)
    /\ swept' = Append(swept, e.rec)

\* lines 157-175 with the updates of lines 159-164 computed
SaveAll(e) ==
    Save(e, save_Po(<<min_abs_moment, Po>>, e.rec.Pn, e.rec.Mn),
         save_Mb_Pb(<<Mb, Pb>>, e.rec.Pn, e.rec.Mn))

\* lines 108-175 at a depth with concrete and bars
EmitDepth ==
    /\ AtDepth
    /\ ConcreteAt(inp, c_values[i])[1] # Zero
    /\ Rebars(inp.section, inp.As_main, inp.As_head1, inp.As_head2) # <<>>
    /\ SaveAll(Evaluate(inp, c_values[i]))
    /\ i' = i + 1
    /\ UNCHANGED <<pc, inp, c_values, phi_vars, clip_vars, beta_vars>>

AfterSweep == pc = "sweep" /\ i > Len(c_values)

\* lines 178 and 193 with no record
ReturnEmpty ==
    /\ AfterSweep
    /\ results = <<>>
    /\ pc' = "returned"
    /\ UNCHANGED <<inp, c_values, i, results, swept, To, Po, min_abs_moment, Mb, Pb,
                   RestPo_0_35, RestPo_0_10, phi_vars, clip_vars, beta_vars>>

\* line 187 with Po = None: 0.80 * 0.65 * None raises TypeError
RaiseTypeError ==
    /\ AfterSweep
    /\ results # <<>>
    /\ Po = None
    /\ pc' = "raised"
    /\ UNCHANGED <<inp, c_values, i, results, swept, To, Po, min_abs_moment, Mb, Pb,
                   RestPo_0_35, RestPo_0_10, phi_vars, clip_vars, beta_vars>>

\* lines 178-193
Return ==
    /\ AfterSweep
    /\ results # <<>>
    /\ Po # None
    /\ results' = apply_cap(attach(results, To, Po, Mb, Pb, RestPo_0_35, RestPo_0_10),
                            Rec_C2_of(Po))
    /\ pc' = "returned"
    /\ UNCHANGED <<inp, c_values, i, swept, To, Po, min_abs_moment, Mb, Pb,
                   RestPo_0_35, RestPo_0_10, phi_vars, clip_vars, beta_vars>>

Next ==
    \/ Enter
    \/ SkipDepth
    \/ RaiseValueError
    \/ EmitDepth
    \/ ReturnEmpty
    \/ RaiseTypeError
    \/ Return

Spec == Init /\ [][Next]_vars

-----------------------------------------------------------------------------
(* One call of compute_phi_E *)

Strains == {R(k, 10000) : k \in (-MaxStrain)..MaxStrain}

InitPhi ==
    /\ EngineIdle
    /\ ClipIdle
    /\ BetaIdle
    /\ phi_pc = "call"
    /\ epsilon_s \in Strains
    /\ phi_ret = None

PhiReturn ==
    /\ phi_pc = "call"
    /\ phi_ret' = compute_phi_E(epsilon_s)
    /\ phi_pc' = "returned"
    /\ UNCHANGED <<epsilon_s, engine_vars, clip_vars, beta_vars>>

SpecPhi == InitPhi /\ [][PhiReturn]_vars

-----------------------------------------------------------------------------
(* One call of clip_polygon_above_c, next to compute_area_and_centroid of   *)
(* the same polygon                                                         *)

Pt(x, y) == <<N(x), N(y)>>

\* counter-clockwise rectangle, listed from its bottom-left corner
Rect(x0, y0, W, H) == <<Pt(x0, y0), Pt(x0 + W, y0), Pt(x0 + W, y0 + H), Pt(x0, y0 + H)>>

\* the same boundary listed from vertex r+1
Rotate(poly, r) == [k \in 1..Len(poly) |-> poly[((k - 1 + r) % Len(poly)) + 1]]

Reverse(poly) == [k \in 1..Len(poly) |-> poly[Len(poly) + 1 - k]]

BaseRects == {Rotate(Rect(0, 0, W, H), r) : W \in 1..MaxW, H \in 1..MaxH, r \in 0..3}

OtherPolygons ==
    {Rect(1, 1, W, H) : W \in 1..MaxW, H \in 1..MaxH}
    \cup {Reverse(Rect(0, 1, W, H)) : W \in 1..MaxW, H \in 1..MaxH}
    \cup {<<Pt(0, 0), Pt(W, 1), Pt(1, H)>> : W \in 1..MaxW, H \in 2..MaxH}
    \cup {<<Pt(0, 0), Pt(W + 1, 0), Pt(W + 1, 1), Pt(1, 1), Pt(1, H), Pt(0, H)>> :
             W \in 1..MaxW, H \in 2..MaxH}
    \cup {<<Pt(0, 0), Pt(W, 1), Pt(2 * W, 2)>> : W \in 1..MaxW}
    \cup {<<Pt(0, 1), Pt(W, 1), Pt(W, 1), Pt(0, 1)>> : W \in 1..MaxW}

\* vertices on the grid of 1/64: floats of Mantissa bits whose products are not
FinePt(x, y) == <<R(x, 64), R(y, 64)>>

FineRect(x0, y0, W, H) ==
    <<FinePt(x0, y0), FinePt(x0 + W, y0), FinePt(x0 + W, y0 + H), FinePt(x0, y0 + H)>>

FinePolygons ==
    {Rotate(FineRect(35, 146, 64 * W + 4, 64 * H + 17), r) :
         W \in 1..MaxW, H \in 1..MaxH, r \in 0..1}
    \cup {<<FinePt(73, 151), FinePt(128, 130), FinePt(101, 151)>>}

Polygons == BaseRects \cup OtherPolygons \cup FinePolygons

Cuts == {R(k, 2) : k \in (-2)..(2 * MaxH + 4)}

InitClip ==
    /\ EngineIdle
    /\ PhiIdle
    /\ BetaIdle
    /\ clip_pc = "call"
    /\ polygon \in Polygons
    /\ y_cut \in Cuts
    /\ clip_ret = None
    /\ full_ret = None
    /\ float_bits \in {0, Mantissa}

ClipReturn ==
    /\ clip_pc = "call"
    /\ clip_ret' = clip_polygon_above_c(polygon, y_cut)
    /\ full_ret' = compute_area_and_centroid(polygon)
    /\ clip_pc' = "returned"
    /\ UNCHANGED <<polygon, y_cut, float_bits, engine_vars, phi_vars, beta_vars>>

SpecClip == InitClip /\ [][ClipReturn]_vars

-----------------------------------------------------------------------------
(* One construction of Concrete(fc): line 30 stores calculate_β() in self.β *)

Strengths == {N(5 * k) : k \in 1..MaxFc}

InitBeta ==
    /\ EngineIdle
    /\ PhiIdle
    /\ ClipIdle
    /\ beta_pc = "call"
    /\ self_fc \in Strengths
    /\ beta_ret = None

BetaReturn ==
    /\ beta_pc = "call"
    /\ beta_ret' = calculate_beta(self_fc)
    /\ beta_pc' = "returned"
    /\ UNCHANGED <<self_fc, engine_vars, phi_vars, clip_vars>>

SpecBeta == InitBeta /\ [][BetaReturn]_vars

-----------------------------------------------------------------------------
(* Properties *)

\* compute_interaction_diagram has returned a non-empty list
ReturnedRecords == pc = "returned" /\ results # <<>>

\* C1: after a return with records, every record r has
\* r.phi_Pn <= 0.80 * 0.65 * Po, Po being the value attached to the first record
C1_Cap ==
    ReturnedRecords =>
        \A k \in 1..Len(results) :
            RLe(results[k].phi_Pn,
                RMul(RMul(R(80, 100), R(65, 100)), results[1].Po))

\* a returned list in which the post-pass lowered some record to the cap
C1_Clamped ==
    /\ ReturnedRecords
    /\ \E k \in 1..Len(results) :
           /\ RGt(swept[k].phi_Pn, RMul(R(52, 100), results[1].Po))
           /\ results[k].phi_Pn = RMul(R(52, 100), results[1].Po)

\* the piecewise-linear map of the specification, on a strain x
PhiSpec(x) ==
    IF RLe(x, R(2, 1000)) THEN R(65, 100)
    ELSE IF RGe(x, R(5, 1000)) THEN R(90, 100)
    ELSE RAdd(R(65, 100),
              RDiv(RMul(RSub(x, R(2, 1000)), RSub(R(90, 100), R(65, 100))),
                   RSub(R(5, 1000), R(2, 1000))))

\* C2 as stated: compute_phi_E(x) is 0.65 for x <= 0.002, 0.90 for x >= 0.005
\* and 0.65 + (x - 0.002) * 0.25 / 0.003 in between, so that it returns 0.90 for
\* the argument 0.005 and 0.775 for the argument 0.0035
C2_AsStated ==
    phi_pc = "returned" =>
        /\ phi_ret = PhiSpec(epsilon_s)
        /\ (epsilon_s = R(5, 1000) => phi_ret = R(90, 100))
        /\ (epsilon_s = R(35, 10000) => phi_ret = R(775, 1000))

\* C2: compute_phi_E(x) is the piecewise-linear map applied to -x: it returns
\* 0.65 for -x <= 0.002, 0.90 for -x >= 0.005 and 0.65 + (-x - 0.002) * 0.25 / 0.003
\* in between, so 0.65 for x = -0.002, 0.90 for x = -0.005, 0.775 for x = -0.0035
C2_SignFlipped ==
    phi_pc = "returned" =>
        /\ phi_ret = PhiSpec(RNeg(epsilon_s))
        /\ (epsilon_s = R(-2, 1000) => phi_ret = R(65, 100))
        /\ (epsilon_s = R(-5, 1000) => phi_ret = R(90, 100))
        /\ (epsilon_s = R(-35, 10000) => phi_ret = R(775, 1000))

\* the call compute_phi_E(-0.0035) has returned 0.775
C2_Midpoint ==
    phi_pc = "returned" /\ epsilon_s = R(-35, 10000) /\ phi_ret = R(775, 1000)

\* C3: the sweep has floor(c_max / c_step) + 1 depths, the first is the floor
\* 0.0001, and two consecutive depths differ by exactly c_step
C3_UniformStep ==
    pc \in {"sweep", "returned", "raised"} =>
        /\ Len(c_values) = RFloorDiv(inp.c_max, inp.c_step) + 1
        /\ c_values[1] = N(SweepFloor)
        /\ \A k \in 1..(Len(c_values) - 1) :
               RSub(c_values[k + 1], c_values[k]) = inp.c_step

\* C4: after a return with records, To is the Pn of the record of the smallest
\* depth of the sweep
C4_ToAtSmallestDepth ==
    ReturnedRecords =>
        \E k \in 1..Len(results) :
            /\ \A j \in 1..Len(c_values) : RLe(results[k].c, c_values[j])
            /\ results[1].To = results[k].Pn

\* record k of the list rs has Pn > 0 and the smallest |Mn| of the records with
\* Pn > 0, and is the earliest such record
MinMomentRecord(rs, k) ==
    /\ RGt(rs[k].Pn, Zero)
    /\ \A j \in 1..Len(rs) :
           RGt(rs[j].Pn, Zero) =>
               /\ RLe(RAbs(rs[k].Mn), RAbs(rs[j].Mn))
               /\ (j < k => RLt(RAbs(rs[k].Mn), RAbs(rs[j].Mn)))

\* C5: Po is the Pn of the earliest record with the smallest |Mn| among the
\* records with Pn > 0 (and no value when no record has Pn > 0), during the
\* sweep and as attached to the first record of the result
C5_PoAtSmallestMoment ==
    /\ pc \in {"sweep", "returned", "raised"} =>
           IF \E j \in 1..Len(swept) : RGt(swept[j].Pn, Zero)
           THEN \E k \in 1..Len(swept) : MinMomentRecord(swept, k) /\ Po = swept[k].Pn
           ELSE Po = None
    /\ ReturnedRecords =>
           \E k \in 1..Len(results) :
               MinMomentRecord(results, k) /\ results[1].Po = results[k].Pn

\* a returned list where a record with Pn <= 0 has a smaller |Mn| than the
\* record that gives Po
C5_NegativeSkipped ==
    /\ ReturnedRecords
    /\ \E k, j \in 1..Len(results) :
           /\ MinMomentRecord(results, k)
           /\ results[1].Po = results[k].Pn
           /\ RLe(results[j].Pn, Zero)
           /\ RLt(RAbs(results[j].Mn), RAbs(results[k].Mn))

\* C6: after a return with records, Po >= Pn of every record
C6_PoIsMaximum ==
    ReturnedRecords =>
        \A k \in 1..Len(results) : RGe(results[1].Po, results[k].Pn)

\* record k of the list rs has the largest Mn and is the earliest such record
MaxMomentRecord(rs, k) ==
    \A j \in 1..Len(rs) :
        /\ RLe(rs[j].Mn, rs[k].Mn)
        /\ (j < k => RLt(rs[j].Mn, rs[k].Mn))

\* C7: Mb is the largest Mn of the records and Pb is the Pn of the earliest
\* record that attains it, during the sweep and as attached to the first record
C7_BalancedPair ==
    /\ (pc \in {"sweep", "returned", "raised"} /\ swept # <<>>) =>
           \E k \in 1..Len(swept) :
               MaxMomentRecord(swept, k) /\ Mb = swept[k].Mn /\ Pb = swept[k].Pn
    /\ ReturnedRecords =>
           \E k \in 1..Len(results) :
               /\ MaxMomentRecord(results, k)
               /\ results[1].Mb = results[k].Mn
               /\ results[1].Pb = results[k].Pn

\* a returned list whose largest Mn is attained before the last record, which
\* has another Pn
C7_MaximumNotLast ==
    /\ ReturnedRecords
    /\ \E k \in 1..(Len(results) - 1) :
           /\ MaxMomentRecord(results, k)
           /\ results[1].Pb = results[k].Pn
           /\ results[Len(results)].Pn # results[k].Pn

\* C8: the returned records are in strictly ascending order of c
C8_AscendingDepth ==
    pc = "returned" =>
        \A k \in 1..(Len(results) - 1) : RLt(results[k].c, results[k + 1].c)

\* C9: for the counter-clockwise rectangle of width W and height H with its
\* base at y = 0, listed from any corner, and a cut 0 < y_cut < H,
\* clip_polygon_above_c returns area W * (H - y_cut), centroid_x W / 2 and
\* centroid_y (H + y_cut) / 2 (in exact arithmetic and in floats of Mantissa
\* bits, which hold every intermediate value of these inputs exactly)
C9_RectangleAboveCut ==
    clip_pc = "returned" =>
        \A W \in 1..MaxW, H \in 1..MaxH, r \in 0..3 :
            (/\ polygon = Rotate(Rect(0, 0, W, H), r)
             /\ RLt(Zero, y_cut)
             /\ RLt(y_cut, N(H))) =>
                clip_ret = <<RMul(N(W), RSub(N(H), y_cut)),
                             R(W, 2),
                             RDiv(RAdd(N(H), y_cut), N(2))>>

\* the 2 x 4 rectangle cut at half height, in rounded arithmetic: area 4,
\* centroid (1, 3)
C9_HalfHeight ==
    /\ clip_pc = "returned"
    /\ float_bits = Mantissa
    /\ polygon = Rect(0, 0, 2, 4)
    /\ y_cut = N(2)
    /\ clip_ret = <<N(4), N(1), N(3)>>

\* every vertex of poly is strictly below (above) y
AllBelow(poly, y) == \A k \in 1..Len(poly) : RLt(poly[k][2], y)
AllAbove(poly, y) == \A k \in 1..Len(poly) : RGt(poly[k][2], y)

\* C10 as stated: for a polygon of at least 3 vertices, a cut strictly above
\* its largest y gives (0, 0, 0) and a cut below its smallest y gives exactly
\* the area and the centroid of compute_area_and_centroid
C10_CutOutside ==
    (clip_pc = "returned" /\ Len(polygon) >= 3) =>
        /\ AllBelow(polygon, y_cut) => clip_ret = <<Zero, Zero, Zero>>
        /\ AllAbove(polygon, y_cut) => clip_ret = full_ret

\* C10: for a polygon of at least 3 vertices, a cut strictly above its largest
\* y gives (0, 0, 0); a cut below its smallest y keeps every vertex, listed
\* from the second one, and gives exactly the area and the centroid that
\* compute_area_and_centroid returns for the polygon listed in that order,
\* which in exact arithmetic are those of the polygon as given
C10_CutOutsideFromSecond ==
    (clip_pc = "returned" /\ Len(polygon) >= 3) =>
        /\ AllBelow(polygon, y_cut) => clip_ret = <<Zero, Zero, Zero>>
        /\ AllAbove(polygon, y_cut) =>
               /\ Clipped(polygon, y_cut) = Rotate(polygon, 1)
               /\ clip_ret = compute_area_and_centroid(Rotate(polygon, 1))
               /\ float_bits = 0 => clip_ret = full_ret

\* a rectangle cut below its base whose rounded sums depend on the first vertex
C10_RoundedApart ==
    /\ clip_pc = "returned"
    /\ float_bits = Mantissa
    /\ Len(polygon) = 4
    /\ AllAbove(polygon, y_cut)
    /\ clip_ret = compute_area_and_centroid(Rotate(polygon, 1))
    /\ clip_ret # full_ret
    /\ clip_ret[1] # Zero

\* no depth of the sweep has compressed concrete
NoConcrete ==
    \A k \in 1..Len(c_values) : ConcreteAt(inp, c_values[k])[1] = Zero

\* C11: when no depth of the sweep has a non-zero compressed area, the call
\* raises nothing and returns the empty list, whatever the bar lists are
C11_EmptyResult ==
    (pc \in {"sweep", "returned", "raised"} /\ NoConcrete) =>
        /\ pc # "raised"
        /\ results = <<>>
        /\ (pc = "sweep" /\ i > Len(c_values)) => ENABLED ReturnEmpty

\* a sweep of several depths over a section without concrete and without bars
C11_NoBarsNoConcrete ==
    /\ pc = "returned"
    /\ results = <<>>
    /\ Len(c_values) >= 2
    /\ NoConcrete
    /\ Rebars(inp.section, inp.As_main, inp.As_head1, inp.As_head2) = <<>>

\* the keys of a record of lines 166-175 and the keys of lines 179-184
RecordKeys == {"c", "Pn", "Mn", "Ac", "Fc", "Ps", "phi_Pn", "phi_Mn"}
ControlKeys == {"To", "Po", "Mb", "Pb", "RestPo_0_35", "RestPo_0_10"}

\* C12: in a non-empty returned list the first record carries the eight record
\* keys and the six control keys, every other record exactly the eight
C12_ControlKeysOnFirst ==
    (pc = "returned" /\ results # <<>>) =>
        /\ DOMAIN results[1] = RecordKeys \cup ControlKeys
        /\ \A k \in 2..Len(results) : DOMAIN results[k] = RecordKeys

\* a returned list of at least three records
C12_SeveralRecords ==
    /\ pc = "returned"
    /\ Len(results) >= 3
    /\ DOMAIN results[1] = RecordKeys \cup ControlKeys
    /\ DOMAIN results[3] = RecordKeys

\* C13: for every fc > 0 the ratio of calculate_β lies between 0.65 and 0.85
C13_BetaInRange ==
    beta_pc = "returned" =>
        /\ RLe(R(65, 100), beta_ret)
        /\ RLe(beta_ret, R(85, 100))

\* the three outlines make one rectangle with heads of equal height
SymmetricRectangle(sec) ==
    /\ \A k \in 1..4 :
           /\ sec.polygon_head_1[k][1] = sec.polygon_web[k][1]
           /\ sec.polygon_head_2[k][1] = sec.polygon_web[k][1]
    /\ RLt(sec.polygon_web[1][1], sec.polygon_web[2][1])
    /\ sec.polygon_head_2[3][2] = RSub(sec.L1, sec.polygon_head_1[1][2])

\* every bar has its mirror image about mid-height, with the same area
SymmetricBars(rebars, L1) ==
    \A k \in 1..Len(rebars) : \E h \in 1..Len(rebars) :
        rebars[h] = <<rebars[k][1], RSub(L1, rebars[k][2]), rebars[k][3]>>

\* the depth c with L1 - beta * c = L1 / 2
MidHeightDepth(a) == RDiv(a.section.L1, RMul(N(2), a.beta))

\* record k of the sweep is the one of a symmetric rectangle with symmetric
\* bars whose compression boundary is at mid-height
AtMidHeight(k) ==
    /\ swept[k].c = MidHeightDepth(inp)
    /\ SymmetricRectangle(inp.section)
    /\ SymmetricBars(Rebars(inp.section, inp.As_main, inp.As_head1, inp.As_head2),
                     inp.section.L1)

\* C14 as stated: for a symmetric rectangular section with symmetric bars, at
\* the depth whose compression boundary is at mid-height, Mn is zero within
\* a tolerance (here 1e-6 of Fc * L1 / 100)
C14_ZeroMoment ==
    \A k \in 1..Len(swept) :
        AtMidHeight(k) =>
            RLe(RAbs(swept[k].Mn),
                RMul(R(1, 1000000),
                     RDiv(RMul(swept[k].Fc, inp.section.L1), N(100))))

\* C14: for a symmetric rectangular section with symmetric bars, at the depth
\* whose compression boundary is at mid-height, the upper half of the section
\* is compressed and Mn is at least the moment of the concrete alone,
\* Fc * (L1 / 4) / 100 > 0
C14_ConcreteMomentRemains ==
    \A k \in 1..Len(swept) :
        AtMidHeight(k) =>
            /\ swept[k].Ac =
                   RMul(RSub(inp.section.polygon_web[2][1], inp.section.polygon_web[1][1]),
                        RDiv(inp.section.L1, N(2)))
            /\ RGt(swept[k].Fc, Zero)
            /\ RGe(swept[k].Mn,
                   RDiv(RMul(swept[k].Fc, RDiv(inp.section.L1, N(4))), N(100)))

\* a returned sweep of a symmetric section with bars of non-zero area that
\* ends at the mid-height depth with a positive moment
C14_PositiveAtMidHeight ==
    /\ pc = "returned"
    /\ swept # <<>>
    /\ AtMidHeight(Len(swept))
    /\ inp.As_main # Zero
    /\ RGt(swept[Len(swept)].Mn, Zero)

\* the bars of the call
CallRebars == Rebars(inp.section, inp.As_main, inp.As_head1, inp.As_head2)

\* the bars of largest x among the bars within 1e-3 of the smallest y
ExtremeTensionBars(rebars) ==
    {k \in low_bars(rebars, y_min_of(rebars)) :
        \A h \in low_bars(rebars, y_min_of(rebars)) : RLe(rebars[h][1], rebars[k][1])}

\* rec carries phi * Pn and phi * Mn for the phi of the tensile strain -eps
ReducedBy(rec, eps) ==
    /\ rec.phi_Pn = RMul(PhiSpec(RNeg(eps)), rec.Pn)
    /\ rec.phi_Mn = RMul(PhiSpec(RNeg(eps)), rec.Mn)

\* C15: every record of the sweep, before the cap, has phi_Pn = phi * Pn and
\* phi_Mn = phi * Mn, phi being the piecewise map (0.65 up to 0.002, 0.90 from
\* 0.005, linear between) of the tensile strain -eps_s of a bar of largest x
\* among the bars within 1e-3 of the smallest y
C15_ReducedByExtremeBar ==
    \A k \in 1..Len(swept) :
        \E b \in ExtremeTensionBars(CallRebars) :
            ReducedBy(swept[k], BarStrain(swept[k].c, inp.section.L1, CallRebars[b][2]))

\* the keys of a record other than phi_Pn
KeptKeys == RecordKeys \ {"phi_Pn"}

\* C16: the returned list has the records of the sweep, in the same number
\* and order, with c, Pn, Mn, Ac, Fc, Ps and phi_Mn as computed in the sweep;
\* phi_Pn is as computed when it was at most Rec_C2 = 0.80 * 0.65 * Po and is
\* Rec_C2 otherwise
C16_OnlyPhiPnClamped ==
    (pc = "returned" /\ results # <<>>) =>
        /\ Len(results) = Len(swept)
        /\ \A k \in 1..Len(results) :
               /\ \A f \in KeptKeys : results[k][f] = swept[k][f]
               /\ RLe(swept[k].phi_Pn, Rec_C2_of(Po)) =>
                      results[k].phi_Pn = swept[k].phi_Pn
               /\ RGt(swept[k].phi_Pn, Rec_C2_of(Po)) =>
                      results[k].phi_Pn = Rec_C2_of(Po)

\* a returned list with a clamped record after an unclamped one
C16_ClampedAndKept ==
    /\ pc = "returned"
    /\ \E k \in 1..Len(results) : \E h \in (k + 1)..Len(results) :
           /\ results[k].phi_Pn = swept[k].phi_Pn
           /\ RLt(results[k].phi_Pn, Rec_C2_of(Po))
           /\ RGt(swept[h].phi_Pn, Rec_C2_of(Po))
           /\ results[h].phi_Pn = Rec_C2_of(Po)

\* C17: once the sweep has emitted a record the call raises nothing, and Po
\* holds a number when the cap of line 187 is computed
C17_PoDefinedAtCap ==
    swept # <<>> =>
        /\ pc # "raised"
        /\ (pc = "sweep" /\ i > Len(c_values)) => Po # None

====
